---- MODULE Spec2Model ----
(***************************************************************************)
(* Model of merger (main.go): a one-shot command-line run that lists the   *)
(* pull requests of a repository, keeps those carrying a label, and for    *)
(* each one queries its check runs and merges it when every check run has  *)
(* completed successfully and the pull request is mergeable.               *)
(*                                                                         *)
(* The strings of the program (token, repository, label, label names,      *)
(* branch names) are sequences of Unicode code points.                     *)
(***************************************************************************)
EXTENDS Integers, Sequences, FiniteSets, TLC

VARIABLES
    pc,            \* position of main: "config", "list", "loop", "exited"
    token,         \* *tokenFlag
    repo,          \* *repoFlag
    label,         \* *labelFlag
    owner,         \* repoParts[0]
    repoName,      \* repoParts[1]
    listResp,      \* outcome of PullRequests.List: "none", "ok", "error"
    pulls,         \* pullRequests, the listing's result
    labeled,       \* labeledPullRequests
    idx,           \* position of the range loop in labeledPullRequests
    failureCount,  \* failureCount
    calls,         \* remote calls issued so far, in order
    evals,         \* one record per finished checkAndMerge call, in order
    lastCheckRuns, \* checkRunResult.CheckRuns of the latest successful query
    exitStatus,    \* "running", "zero", "nonzero"
    fatal          \* the log.Fatal message that ended the run, if any

vars == <<pc, token, repo, label, owner, repoName, listResp, pulls, labeled,
          idx, failureCount, calls, evals, lastCheckRuns, exitStatus, fatal>>

----------------------------------------------------------------------------
(* Bounds of the model *)

MaxPRs == 2      \* pull requests in a listing
MaxChecks == 2   \* check runs returned for one head reference
MaxLabels == 2   \* labels on one pull request given to the filter alone

----------------------------------------------------------------------------
(* Strings *)

\* unicode.IsSpace, which strings.TrimSpace trims by: \t \n \v \f \r, space,
\* U+0085, U+00A0, and the other code points of the White_Space property
\* (U+1680, U+2000..U+200A, U+2028, U+2029, U+202F, U+205F, U+3000).
Whitespace ==
    {9, 10, 11, 12, 13, 32, 133, 160, 5760, 8232, 8233, 8239, 8287, 12288}
        \cup (8192..8202)

RECURSIVE TrimLeft(_)
TrimLeft(s) ==
    IF s # <<>> /\ Head(s) \in Whitespace THEN TrimLeft(Tail(s)) ELSE s

RECURSIVE TrimRight(_)
TrimRight(s) ==
    IF s # <<>> /\ s[Len(s)] \in Whitespace
    THEN TrimRight(SubSeq(s, 1, Len(s) - 1))
    ELSE s

TrimSpace(s) == TrimRight(TrimLeft(s))

\* strings.Split(s, "/"): the pieces between separators ("/" is 47), empty
\* pieces kept; a string without separator yields itself as the single piece.
RECURSIVE Split(_)
Split(s) ==
    IF \A i \in DOMAIN s : s[i] # 47
    THEN <<s>>
    ELSE LET i == CHOOSE k \in DOMAIN s :
                      s[k] = 47 /\ \A j \in 1..(k - 1) : s[j] # 47
         IN  <<SubSeq(s, 1, i - 1)>> \o Split(SubSeq(s, i + 1, Len(s)))

----------------------------------------------------------------------------
(* Inputs *)

SeqsUpTo(S, n) == UNION {[1..k -> S] : k \in 0..n}

\* "", " ", "\r", "\f" followed by U+00A0, "t"
TokenInputs == {<<>>, <<32>>, <<13>>, <<12, 160>>, <<116>>}

\* "", " ", "\t\v", "ab", "a/b", "a/b/c", "/b", "a/"
RepoInputs ==
    { <<>>, <<32>>, <<9, 11>>,
      <<97, 98>>,
      <<97, 47, 98>>,
      <<97, 47, 98, 47, 99>>,
      <<47, 98>>,
      <<97, 47>> }

\* "", " ", U+0085 followed by "\n", "d"
LabelInputs == {<<>>, <<32>>, <<133, 10>>, <<100>>}

\* Label lists of the pull requests of a whole run: none, "d", "D".
LabelLists == {<<>>, << <<100>> >>, << <<68>> >>}

\* Label names, and target labels, of the runs of the filter alone:
\* "d", "D", "d ".
LabelNames == {<<100>>, <<68>>, <<100, 32>>}

\* (Mergeable, MergeableState) as the platform reports them; "null" is the
\* nil pointer of a mergeability the platform has not computed yet.
MergeableInputs ==
    { [mergeable |-> "true",  state |-> "clean"],
      [mergeable |-> "false", state |-> "dirty"],
      [mergeable |-> "null",  state |-> "unknown"] }

\* (Head.Ref, Head.Label) as the platform reports them, whatever the number
\* of the pull request: branch "p" of "o" ("o:p"), branch "q" of "o"
\* ("o:q"), and a branch "p" of the fork "f" ("f:p").
HeadInputs ==
    { [ref |-> <<112>>, label |-> <<111, 58, 112>>],
      [ref |-> <<113>>, label |-> <<111, 58, 113>>],
      [ref |-> <<112>>, label |-> <<102, 58, 112>>] }

PullRequest(n, labels, m, h) ==
    [ number |-> n, labels |-> labels, ref |-> h.ref, headLabel |-> h.label,
      mergeable |-> m.mergeable, mergeableState |-> m.state ]

\* A listing of pull requests, numbered by position, from their label lists,
\* mergeability and heads.
Listing(ls, ms, hs) ==
    [i \in DOMAIN ls |-> PullRequest(i, ls[i], ms[i], hs[i])]

\* (Status, Conclusion) of a check run; "" is the nil conclusion.
CheckRunInputs ==
    { [status |-> st, conclusion |-> co] :
        st \in {"in_progress", "completed"},
        co \in {"", "success", "failure"} }

\* Check runs returned to the evaluations of a whole run: none, one
\* successful, one failed, one in progress, a failed one before a successful
\* one.
CheckRunLists ==
    { <<>>,
      <<[status |-> "completed", conclusion |-> "success"]>>,
      <<[status |-> "completed", conclusion |-> "failure"]>>,
      <<[status |-> "in_progress", conclusion |-> ""]>>,
      <<[status |-> "completed", conclusion |-> "failure"],
        [status |-> "completed", conclusion |-> "success"]>> }

\* The outcomes of ListCheckRunsForRef: an error, or the check runs.
ChecksFailed == [ok |-> FALSE, runs |-> <<>>]

CheckResponses ==
    {ChecksFailed} \cup {[ok |-> TRUE, runs |-> r] : r \in CheckRunLists}

\* Every list of up to MaxChecks check runs, for one evaluation on its own.
AllCheckResponses ==
    {ChecksFailed} \cup
    {[ok |-> TRUE, runs |-> r] : r \in SeqsUpTo(CheckRunInputs, MaxChecks)}

MergeResponses == {"ok", "error"}

----------------------------------------------------------------------------
(* Remote calls and messages *)

ListCall(o, r) == [op |-> "list", owner |-> o, repo |-> r]
ChecksCall(o, r, pr) ==
    [op |-> "checks", owner |-> o, repo |-> r, ref |-> pr.ref,
     number |-> pr.number]
MergeCall(o, r, pr) ==
    [op |-> "merge", owner |-> o, repo |-> r, number |-> pr.number,
     message |-> "Merged by merger"]

NoError == [kind |-> "nil"]
NoFatal == [kind |-> "none"]

----------------------------------------------------------------------------
(* filterPullRequestsByLabel *)

\* the inner loop over pullRequest.Labels
RECURSIVE ContainsLabel(_, _, _)
ContainsLabel(labels, expectedLabel, contains) ==
    IF labels = <<>> THEN contains
    ELSE ContainsLabel(Tail(labels), expectedLabel,
                       IF Head(labels) = expectedLabel THEN TRUE ELSE contains)

RECURSIVE FilterLoop(_, _, _)
FilterLoop(prs, expectedLabel, filtered) ==
    IF prs = <<>> THEN filtered
    ELSE FilterLoop(Tail(prs), expectedLabel,
                    IF ContainsLabel(Head(prs).labels, expectedLabel, FALSE)
                    THEN Append(filtered, Head(prs))
                    ELSE filtered)

\* variant: only the first label of a pull request is compared
filterPullRequestsByLabelFirstOnly(prs, expectedLabel) ==
    SelectSeq(prs, LAMBDA p : p.labels # <<>> /\ p.labels[1] = expectedLabel)

ToLower(s) ==
    [i \in DOMAIN s |-> IF s[i] \in 65..90 THEN s[i] + 32 ELSE s[i]]

\* variant: label names compared without regard to case
filterPullRequestsByLabelEqualFold(prs, expectedLabel) ==
    SelectSeq(prs, LAMBDA p : \E k \in DOMAIN p.labels :
                                 ToLower(p.labels[k]) = ToLower(expectedLabel))

filterPullRequestsByLabel(prs, expectedLabel) ==
    FilterLoop(prs, expectedLabel, <<>>)

----------------------------------------------------------------------------
(* checkAndMerge *)

\* variant: each check run overwrites the aggregate
RECURSIVE ChecksLoopLastWins(_, _)
ChecksLoopLastWins(runs, allChecksOk) ==
    IF runs = <<>> THEN allChecksOk
    ELSE ChecksLoopLastWins(Tail(runs),
            Head(runs).status = "completed" /\ Head(runs).conclusion = "success")

\* the loop over checkRunResult.CheckRuns
RECURSIVE ChecksLoop(_, _)
ChecksLoop(runs, allChecksOk) ==
    IF runs = <<>> THEN allChecksOk
    ELSE ChecksLoop(Tail(runs),
            IF Head(runs).status = "completed"
            THEN IF Head(runs).conclusion = "success"
                 THEN allChecksOk
                 ELSE FALSE
            ELSE FALSE)

\* variant: a mergeability not yet computed counts as mergeable
GetMergeableNilIsTrue(pr) == pr.mergeable # "false"

\* (*github.PullRequest).GetMergeable: false for a nil pointer
GetMergeable(pr) == pr.mergeable = "true"

\* variant: the merge is gated on mergeability alone
checkAndMergeIgnoringChecks(o, r, pr, checksResp, mergeResp) ==
    IF ~checksResp.ok
    THEN [calls |-> <<ChecksCall(o, r, pr)>>, checked |-> FALSE,
          allChecksOk |-> FALSE,
          err |-> [kind |-> "checks_failed", number |-> pr.number,
                   branch |-> pr.headLabel]]
    ELSE LET allChecksOk == ChecksLoop(checksResp.runs, TRUE) IN
         IF ~GetMergeable(pr)
         THEN [calls |-> <<ChecksCall(o, r, pr)>>, checked |-> TRUE,
               allChecksOk |-> allChecksOk,
               err |-> IF allChecksOk
                       THEN [kind |-> "not_mergeable", number |-> pr.number,
                             state |-> pr.mergeableState]
                       ELSE NoError]
         ELSE [calls |-> <<ChecksCall(o, r, pr), MergeCall(o, r, pr)>>,
               checked |-> TRUE, allChecksOk |-> allChecksOk,
               err |-> IF mergeResp = "ok" THEN NoError
                       ELSE [kind |-> "merge_failed", number |-> pr.number]]

\* variant: a candidate whose checks did not pass is returned as an error
checkAndMergeSkipIsError(o, r, pr, checksResp, mergeResp) ==
    IF ~checksResp.ok
    THEN [calls |-> <<ChecksCall(o, r, pr)>>, checked |-> FALSE,
          allChecksOk |-> FALSE,
          err |-> [kind |-> "checks_failed", number |-> pr.number,
                   branch |-> pr.headLabel]]
    ELSE LET allChecksOk == ChecksLoop(checksResp.runs, TRUE) IN
         IF ~allChecksOk
         THEN [calls |-> <<ChecksCall(o, r, pr)>>, checked |-> TRUE,
               allChecksOk |-> FALSE,
               err |-> [kind |-> "checks_not_ok", number |-> pr.number]]
         ELSE IF ~GetMergeable(pr)
         THEN [calls |-> <<ChecksCall(o, r, pr)>>, checked |-> TRUE,
               allChecksOk |-> TRUE,
               err |-> [kind |-> "not_mergeable", number |-> pr.number,
                        state |-> pr.mergeableState]]
         ELSE [calls |-> <<ChecksCall(o, r, pr), MergeCall(o, r, pr)>>,
               checked |-> TRUE, allChecksOk |-> TRUE,
               err |-> IF mergeResp = "ok" THEN NoError
                       ELSE [kind |-> "merge_failed", number |-> pr.number]]

\* The outcome of one call: the remote calls it issued, whether the check
\* runs were retrieved, the aggregate it computed, and the error it returned.
checkAndMerge(o, r, pr, checksResp, mergeResp) ==
    IF ~checksResp.ok
    THEN [calls |-> <<ChecksCall(o, r, pr)>>, checked |-> FALSE,
          allChecksOk |-> FALSE,
          err |-> [kind |-> "checks_failed", number |-> pr.number,
                   branch |-> pr.headLabel]]
    ELSE LET allChecksOk == ChecksLoop(checksResp.runs, TRUE) IN
         IF ~allChecksOk
         THEN [calls |-> <<ChecksCall(o, r, pr)>>, checked |-> TRUE,
               allChecksOk |-> FALSE, err |-> NoError]
         ELSE IF ~GetMergeable(pr)
         THEN [calls |-> <<ChecksCall(o, r, pr)>>, checked |-> TRUE,
               allChecksOk |-> TRUE,
               err |-> [kind |-> "not_mergeable", number |-> pr.number,
                        state |-> pr.mergeableState]]
         ELSE [calls |-> <<ChecksCall(o, r, pr), MergeCall(o, r, pr)>>,
               checked |-> TRUE, allChecksOk |-> TRUE,
               err |-> IF mergeResp = "ok" THEN NoError
                       ELSE [kind |-> "merge_failed", number |-> pr.number]]

----------------------------------------------------------------------------
(* main *)

Init ==
    /\ pc = "config"
    /\ token \in TokenInputs
    /\ repo \in RepoInputs
    /\ label \in LabelInputs
    /\ owner = <<>>
    /\ repoName = <<>>
    /\ listResp = "none"
    /\ pulls = <<>>
    /\ labeled = <<>>
    /\ idx = 1
    /\ failureCount = 0
    /\ calls = <<>>
    /\ evals = <<>>
    /\ lastCheckRuns = <<>>
    /\ exitStatus = "running"
    /\ fatal = NoFatal

\* log.Fatal / log.Fatalf: print the message and exit with status 1
Fatal(msg) ==
    /\ pc' = "exited"
    /\ exitStatus' = "nonzero"
    /\ fatal' = msg

\* The message of the first failing validation, NoFatal when all pass.
ConfigError(t, r, l) ==
    IF TrimSpace(t) = <<>> THEN [kind |-> "token_not_provided"]
    ELSE IF TrimSpace(r) = <<>> THEN [kind |-> "repository_not_provided"]
    ELSE IF TrimSpace(l) = <<>> THEN [kind |-> "label_not_provided"]
    ELSE IF Len(Split(r)) # 2 THEN [kind |-> "malformed_repository", repo |-> r]
    ELSE NoFatal

\* main, from the flag values to the construction of the client
Configure ==
    /\ pc = "config"
    /\ IF ConfigError(token, repo, label) # NoFatal
       THEN /\ Fatal(ConfigError(token, repo, label))
            /\ UNCHANGED <<owner, repoName>>
       ELSE /\ pc' = "list"
            /\ owner' = Split(repo)[1]
            /\ repoName' = Split(repo)[2]
            /\ UNCHANGED <<exitStatus, fatal>>
    /\ UNCHANGED <<token, repo, label, listResp, pulls, labeled, idx,
                   failureCount, calls, evals, lastCheckRuns>>

\* variant: the listing error is only logged and the run goes on with the
\* nil listing
ListFailedIgnored ==
    /\ listResp' = "error"
    /\ pc' = "loop"
    /\ pulls' = <<>>
    /\ labeled' = filterPullRequestsByLabel(pulls', label)
    /\ UNCHANGED <<exitStatus, fatal>>

\* main: the listing failed, log.Fatalf
ListFailed ==
    /\ listResp' = "error"
    /\ Fatal([kind |-> "list_failed", repo |-> repo])
    /\ UNCHANGED <<pulls, labeled>>

\* main: the listing call, its error check and the label filter
ListPullRequests ==
    /\ pc = "list"
    /\ calls' = Append(calls, ListCall(owner, repoName))
    /\ \/ ListFailed
       \/ /\ listResp' = "ok"
          /\ \E n \in 0..MaxPRs :
               \E ls \in [1..n -> LabelLists], ms \in [1..n -> MergeableInputs],
                  hs \in [1..n -> HeadInputs] :
                  pulls' = Listing(ls, ms, hs)
          /\ labeled' = filterPullRequestsByLabel(pulls', label)
          /\ pc' = "loop"
          /\ UNCHANGED <<exitStatus, fatal>>
    /\ UNCHANGED <<token, repo, label, owner, repoName, idx, failureCount,
                   evals, lastCheckRuns>>

\* variant: the count is set, not incremented
CountFailureSticky(count, err) == IF err # NoError THEN 1 ELSE count

\* the body of the range loop: failureCount++ when checkAndMerge fails
CountFailure(count, err) == IF err # NoError THEN count + 1 ELSE count

\* variant: the loop is left at the first failure
NextIndexBreakOnError(i, n, err) == IF err # NoError THEN n + 1 ELSE i + 1

\* where the range loop goes after an iteration: the next candidate
NextIndex(i, n, err) == i + 1

\* one iteration of the range loop over labeledPullRequests, the check-run
\* query answered by one of checkResponses
Evaluate(checkResponses) ==
    /\ pc = "loop"
    /\ idx <= Len(labeled)
    /\ \E checksResp \in checkResponses, mergeResp \in MergeResponses :
         LET pr == labeled[idx]
             out == checkAndMerge(owner, repoName, pr, checksResp, mergeResp)
         IN  /\ calls' = calls \o out.calls
             /\ evals' = Append(evals,
                                [number |-> pr.number, checked |-> out.checked,
                                 allChecksOk |-> out.allChecksOk,
                                 err |-> out.err])
             /\ lastCheckRuns' = checksResp.runs
             /\ failureCount' = CountFailure(failureCount, out.err)
             /\ idx' = NextIndex(idx, Len(labeled), out.err)
    /\ UNCHANGED <<pc, token, repo, label, owner, repoName, listResp, pulls,
                   labeled, exitStatus, fatal>>

EvaluateCandidate == Evaluate(CheckResponses)

\* main after the loop: the summary and the exit status
Finish ==
    /\ pc = "loop"
    /\ idx > Len(labeled)
    /\ IF failureCount > 0
       THEN Fatal([kind |-> "summary", failures |-> failureCount,
                   total |-> Len(labeled)])
       ELSE /\ pc' = "exited"
            /\ exitStatus' = "zero"
            /\ UNCHANGED fatal
    /\ UNCHANGED <<token, repo, label, owner, repoName, listResp, pulls,
                   labeled, idx, failureCount, calls, evals, lastCheckRuns>>

Next ==
    \/ Configure
    \/ ListPullRequests
    \/ EvaluateCandidate
    \/ Finish

Spec == Init /\ [][Next]_vars

----------------------------------------------------------------------------
(* filterPullRequestsByLabel on its own: any listing, any target label *)

InitFilter ==
    /\ pc = "filter"
    /\ token = <<>>
    /\ repo = <<>>
    /\ label \in LabelNames
    /\ owner = <<>>
    /\ repoName = <<>>
    /\ listResp = "none"
    /\ \E n \in 0..MaxPRs :
         \E ls \in [1..n -> SeqsUpTo(LabelNames, MaxLabels)] :
            pulls = Listing(ls,
                            [i \in 1..n |->
                                [mergeable |-> "true", state |-> "clean"]],
                            [i \in 1..n |->
                                [ref |-> <<112>>, label |-> <<111, 58, 112>>]])
    /\ labeled = <<>>
    /\ idx = 1
    /\ failureCount = 0
    /\ calls = <<>>
    /\ evals = <<>>
    /\ lastCheckRuns = <<>>
    /\ exitStatus = "running"
    /\ fatal = NoFatal

ApplyFilter ==
    /\ pc = "filter"
    /\ labeled' = filterPullRequestsByLabel(pulls, label)
    /\ pc' = "filtered"
    /\ UNCHANGED <<token, repo, label, owner, repoName, listResp, pulls, idx,
                   failureCount, calls, evals, lastCheckRuns, exitStatus,
                   fatal>>

NextFilter == ApplyFilter

SpecFilter == InitFilter /\ [][NextFilter]_vars

----------------------------------------------------------------------------
(* The evaluation of one candidate on its own: main in its loop over a      *)
(* single labeled pull request, with any list of check runs                 *)

InitChecks ==
    /\ pc = "loop"
    /\ token = <<116>>
    /\ repo = <<97, 47, 98>>
    /\ label = <<100>>
    /\ owner = Split(repo)[1]
    /\ repoName = Split(repo)[2]
    /\ listResp = "ok"
    /\ \E m \in MergeableInputs, h \in HeadInputs :
          pulls = Listing(<< << <<100>> >> >>, <<m>>, <<h>>)
    /\ labeled = filterPullRequestsByLabel(pulls, label)
    /\ idx = 1
    /\ failureCount = 0
    /\ calls = <<ListCall(owner, repoName)>>
    /\ evals = <<>>
    /\ lastCheckRuns = <<>>
    /\ exitStatus = "running"
    /\ fatal = NoFatal

EvaluateAnyChecks == Evaluate(AllCheckResponses)

NextChecks ==
    \/ EvaluateAnyChecks
    \/ Finish

SpecChecks == InitChecks /\ [][NextChecks]_vars

----------------------------------------------------------------------------
(* Vocabulary of the properties *)

\* the pull request carries a label named exactly l
HasLabel(pr, l) == \E k \in DOMAIN pr.labels : pr.labels[k] = l

\* every check run is completed with conclusion success
RunsAllSuccessful(runs) ==
    \A k \in DOMAIN runs :
        runs[k].status = "completed" /\ runs[k].conclusion = "success"

MergeIssuedFor(n) ==
    \E k \in DOMAIN calls : calls[k].op = "merge" /\ calls[k].number = n

ChecksIssuedFor(n) ==
    \E k \in DOMAIN calls : calls[k].op = "checks" /\ calls[k].number = n

\* the evaluations that returned an error
Failures == {i \in DOMAIN evals : evals[i].err # NoError}

\* the latest evaluation retrieved its check runs
LastChecked == evals # <<>> /\ evals[Len(evals)].checked

----------------------------------------------------------------------------
(* Properties *)

\* C1: a candidate whose retrieved check runs are not all completed with
\* conclusion success never has a merge call issued for it, whatever its
\* mergeable flag.
C1_NoMergeWhenChecksNotOk ==
    /\ \A i \in DOMAIN evals :
          (evals[i].checked /\ ~evals[i].allChecksOk)
              => ~MergeIssuedFor(evals[i].number)
    /\ (LastChecked /\ ~RunsAllSuccessful(lastCheckRuns))
          => ~MergeIssuedFor(evals[Len(evals)].number)

\* a mergeable candidate was evaluated with a failed check run
C1_Witness ==
    /\ LastChecked
    /\ \E k \in DOMAIN lastCheckRuns : lastCheckRuns[k].conclusion = "failure"
    /\ labeled[Len(evals)].mergeable = "true"

\* C2: when a candidate's check runs all passed and its mergeable flag is
\* false or not yet computed, checkAndMerge returns the not-mergeable failure
\* naming its number and mergeable state, issues the check-run query but no
\* merge call, and the failure count rises by exactly one.
C2_NotMergeableIsFailure ==
    [][ ( /\ Len(evals') = Len(evals) + 1
          /\ evals'[Len(evals')].checked
          /\ RunsAllSuccessful(lastCheckRuns')
          /\ labeled[idx].mergeable \in {"false", "null"} )
        => ( /\ evals'[Len(evals')].err =
                   [kind |-> "not_mergeable", number |-> labeled[idx].number,
                    state |-> labeled[idx].mergeableState]
             /\ calls' = Append(calls, ChecksCall(owner, repoName, labeled[idx]))
             /\ failureCount' = failureCount + 1 ) ]_vars

\* a candidate of unknown mergeability passed its checks and was refused
C2_Witness ==
    /\ LastChecked
    /\ RunsAllSuccessful(lastCheckRuns)
    /\ labeled[Len(evals)].mergeable = "null"
    /\ evals[Len(evals)].err.kind = "not_mergeable"
    /\ failureCount = 1

\* C3: for a retrieved pull request none of whose labels equals the
\* configured label, neither a check-run query on its behalf nor a merge call
\* for its number is issued.
C3_UnlabeledUntouched ==
    \A j \in DOMAIN pulls :
        ~HasLabel(pulls[j], label)
            => ( /\ ~ChecksIssuedFor(pulls[j].number)
                 /\ ~MergeIssuedFor(pulls[j].number) )

\* the run ended having merged a labeled pull request beside one of the same
\* head reference whose only label differs from the configured one by case
C3_Witness ==
    /\ pc = "exited"
    /\ \E i, j \in DOMAIN pulls :
          /\ pulls[j].labels = << <<68>> >>
          /\ pulls[j].mergeable = "true"
          /\ HasLabel(pulls[i], label)
          /\ pulls[i].ref = pulls[j].ref
          /\ MergeIssuedFor(pulls[i].number)

\* C4: a run that went through its N candidates, K of them returning a
\* failure, exits non-zero iff K > 0, and then the summary reports K and N.
C4_RunLevelCounting ==
    (pc = "exited" /\ listResp = "ok")
        => LET K == Cardinality(Failures)
               N == Len(labeled)
           IN  /\ Len(evals) = N
               /\ (exitStatus = "nonzero") <=> (K > 0)
               /\ (exitStatus = "zero") <=> (K = 0)
               /\ K > 0 => fatal = [kind |-> "summary", failures |-> K,
                                    total |-> N]
               /\ K = 0 => fatal = NoFatal

\* a run of two candidates ended with both of them failed
C4_Witness ==
    /\ pc = "exited"
    /\ Len(labeled) = 2
    /\ Cardinality(Failures) = 2
    /\ fatal.kind = "summary"

\* C5: when the listing call fails the run ends at once with the fatal
\* message of the listing and a non-zero status, and the listing is the only
\* remote call of the run.
C5_ListFailureIsFatal ==
    listResp = "error"
        => /\ pc = "exited"
           /\ exitStatus = "nonzero"
           /\ fatal = [kind |-> "list_failed", repo |-> repo]
           /\ calls = <<ListCall(owner, repoName)>>
           /\ evals = <<>>

\* the listing failed
C5_Witness == listResp = "error" /\ pc = "exited" /\ Len(calls) = 1

\* exactly one separator, with a non-empty part on each side of it
TwoNonEmptySegments(s) ==
    \E i \in DOMAIN s :
        /\ s[i] = 47
        /\ \A j \in DOMAIN s : s[j] = 47 => j = i
        /\ 1 < i
        /\ i < Len(s)

\* C6: with token, repository and label non-blank, a repository that does
\* not split on "/" into exactly two non-empty segments ends the run with
\* the malformed-repository message and without any remote call.
C6_MalformedRepositoryRejected ==
    ( /\ pc # "config"
      /\ TrimSpace(token) # <<>>
      /\ TrimSpace(repo) # <<>>
      /\ TrimSpace(label) # <<>>
      /\ ~TwoNonEmptySegments(repo) )
        => ( /\ pc = "exited"
             /\ fatal = [kind |-> "malformed_repository", repo |-> repo]
             /\ calls = <<>> )

\* C7: the filter returns the pull requests that carry the target label, each
\* once, in their order in the input.
C7_FilterIsLabelSubsequence ==
    pc = "filtered"
        => \E f \in [1..Len(labeled) -> 1..Len(pulls)] :
              /\ \A i, j \in 1..Len(labeled) : i < j => f[i] < f[j]
              /\ \A i \in 1..Len(labeled) : labeled[i] = pulls[f[i]]
              /\ {f[i] : i \in 1..Len(labeled)} =
                     {j \in 1..Len(pulls) : HasLabel(pulls[j], label)}

\* the filter kept, once, a pull request carrying the target label twice
\* after another label, and dropped one whose label differs by a trailing
\* space
C7_Witness ==
    /\ pc = "filtered"
    /\ label = <<100>>
    /\ Len(pulls) = 2
    /\ pulls[1].labels = << <<100, 32>> >>
    /\ pulls[2].labels = << <<68>>, <<100>> >>
    /\ labeled = <<pulls[2]>>

\* C8: the aggregate computed for the retrieved check runs is true iff every
\* one of them is completed with conclusion success, and a candidate without
\* check runs reaches the mergeability gate.
C8_CheckAggregation ==
    LastChecked
        => LET e == evals[Len(evals)] IN
           /\ e.allChecksOk <=> RunsAllSuccessful(lastCheckRuns)
           /\ lastCheckRuns = <<>>
                 => /\ e.allChecksOk
                    /\ \/ e.err.kind = "not_mergeable"
                       \/ MergeIssuedFor(e.number)

\* a failed check run followed by a successful one made the aggregate false
C8_Witness ==
    /\ LastChecked
    /\ Len(lastCheckRuns) = 2
    /\ lastCheckRuns[1].conclusion = "failure"
    /\ lastCheckRuns[2].conclusion = "success"
    /\ ~evals[Len(evals)].allChecksOk

\* C9: after a successful listing the check-run queries issued are those of
\* the candidates evaluated so far, one each, in the order of the filtered
\* list, and the run ends only when every candidate has been evaluated.
C9_NoShortCircuit ==
    listResp = "ok"
        => /\ Len(evals) <= Len(labeled)
           /\ SelectSeq(calls, LAMBDA c : c.op = "checks") =
                 [i \in 1..Len(evals) |->
                     ChecksCall(owner, repoName, labeled[i])]
           /\ \A i \in 1..Len(evals) : evals[i].number = labeled[i].number
           /\ pc = "exited" => Len(evals) = Len(labeled)

\* the run ended having evaluated a second candidate after the first failed
C9_Witness ==
    /\ pc = "exited"
    /\ Len(labeled) = 2
    /\ Len(evals) = 2
    /\ evals[1].err # NoError

\* every candidate evaluated so far was skipped for its check runs
AllSkipped ==
    \A i \in DOMAIN evals : evals[i].checked /\ ~evals[i].allChecksOk

\* C10: a candidate whose check runs were retrieved and did not all pass
\* returns no error and leaves the failure count unchanged, and a run whose
\* candidates were all skipped this way exits zero.
C10_SkipIsNotFailure ==
    /\ [](( /\ pc = "exited"
            /\ listResp = "ok"
            /\ Len(evals) = Len(labeled)
            /\ AllSkipped ) => exitStatus = "zero")
    /\ [][ ( /\ Len(evals') = Len(evals) + 1
             /\ evals'[Len(evals')].checked
             /\ ~RunsAllSuccessful(lastCheckRuns') )
           => ( /\ evals'[Len(evals')].err = NoError
                /\ failureCount' = failureCount ) ]_vars

\* a run whose only candidate had a failed check run exited zero
C10_Witness ==
    /\ pc = "exited"
    /\ exitStatus = "zero"
    /\ Len(labeled) = 1
    /\ Len(evals) = 1
    /\ AllSkipped
    /\ lastCheckRuns = <<[status |-> "completed", conclusion |-> "failure"]>>

====
